---- MODULE Spec2Model ----
(***************************************************************************)
(* Prepaid card account ledger (package card): the Account aggregate, its  *)
(* five mutating operations and the decimal arithmetic they run through.   *)
(***************************************************************************)
EXTENDS Integers, Sequences, FiniteSets, TLC

(***************************************************************************)
(* Bounds of the model.                                                    *)
(***************************************************************************)
\* longest transaction log explored
MaxTx == 3
\* merchant identifiers are 1..MaxMerchantID
MaxMerchantID == 2
\* most calls explored that return an arithmetic error
MaxFailures == 2
\* HTTP requests the service is sent
MaxRequests == 2

(***************************************************************************)
(* Program constants.                                                      *)
(***************************************************************************)
\* getContext: apd.BaseContext.WithPrecision(16)
Precision == 16
\* apd.BaseContext: MaxExponent, and MinExponent == -MaxExponent
MaxExponent == 100000

\* Decimal.Float64 is strconv.ParseFloat(d.String(), 64): the largest
\* float64 is 1.797...E+308
MaxFloat64Exponent == 308

\* Operation (iota)
OpLoad == 0
OpAuthorize == 1
OpCapture == 2
OpReverse == 3
OpRefund == 4

\* error values returned by the Account methods
ErrNone == "nil"
ErrUnderflow == "requested amount exceeds available amount"
ErrMerchantNotFound == "merchant record not found"
\* an error returned by the decimal context (apd), passed through unchanged
ErrArithmetic == "arithmetic error"
\* strconv.ErrRange, returned by Decimal.Float64
ErrRange == "value out of range"
\* a nil *apd.Decimal dereferenced: the call panics
Panic == "panic: nil pointer dereference"

(***************************************************************************)
(* apd.Decimal: sign, coefficient (decimal digits, most significant first, *)
(* the empty sequence for zero) and exponent. form "nil" stands for a nil  *)
(* pointer passed as an amount.                                            *)
(***************************************************************************)
Dec(neg, coeff, exp) == [form |-> "Finite", neg |-> neg, coeff |-> coeff, exp |-> exp]

\* a nil *apd.Decimal
NilDecimal == [form |-> "nil", neg |-> FALSE, coeff |-> <<>>, exp |-> 0]

IsNil(d) == d.form = "nil"

\* apd.New(0, 0)
Zero == Dec(FALSE, <<>>, 0)

Min2(a, b) == IF a < b THEN a ELSE b
Max2(a, b) == IF a > b THEN a ELSE b

\* big.Int normal form: no leading zero digits
RECURSIVE Strip(_)
Strip(ds) ==
  IF ds = <<>> THEN <<>>
  ELSE IF Head(ds) = 0 THEN Strip(Tail(ds))
  ELSE ds

PadLeft(ds, n) ==
  [i \in 1..n |-> IF i <= n - Len(ds) THEN 0 ELSE ds[i - (n - Len(ds))]]

\* coefficient * 10^n
Shift(ds, n) == IF ds = <<>> THEN <<>> ELSE ds \o [i \in 1..n |-> 0]

RECURSIVE CmpFrom(_, _, _)
CmpFrom(a, b, i) ==
  IF i > Len(a) THEN 0
  ELSE IF a[i] < b[i] THEN -1
  ELSE IF a[i] > b[i] THEN 1
  ELSE CmpFrom(a, b, i + 1)

\* big.Int.Cmp on magnitudes: -1, 0, 1
CmpMag(a, b) ==
  IF Len(a) # Len(b) THEN (IF Len(a) < Len(b) THEN -1 ELSE 1)
  ELSE CmpFrom(a, b, 1)

RECURSIVE AddCarry(_, _, _, _)
AddCarry(a, b, i, c) ==
  IF i = 0 THEN (IF c = 0 THEN <<>> ELSE <<c>>)
  ELSE LET s == a[i] + b[i] + c
       IN  Append(AddCarry(a, b, i - 1, s \div 10), s % 10)

\* big.Int.Add on magnitudes
AddMag(a, b) ==
  LET n == Max2(Len(a), Len(b))
  IN  IF a = <<>> THEN b
      ELSE IF b = <<>> THEN a
      ELSE Strip(AddCarry(PadLeft(a, n), PadLeft(b, n), n, 0))

RECURSIVE SubBorrow(_, _, _, _)
SubBorrow(a, b, i, br) ==
  IF i = 0 THEN <<>>
  ELSE LET s == a[i] - b[i] - br
       IN  Append(SubBorrow(a, b, i - 1, IF s < 0 THEN 1 ELSE 0),
                  IF s < 0 THEN s + 10 ELSE s)

\* big.Int.Sub on magnitudes, for a >= b
SubMag(a, b) ==
  LET n == Len(a)
  IN  IF b = <<>> THEN a
      ELSE Strip(SubBorrow(a, PadLeft(b, n), n, 0))

\* Decimal.Sign
Sign(d) == IF d.coeff = <<>> THEN 0 ELSE IF d.neg THEN -1 ELSE 1

\* Decimal.NumDigits: zero has one digit
NumDigits(d) == IF d.coeff = <<>> THEN 1 ELSE Len(d.coeff)

\* Decimal.Cmp: the exact numerical comparison of two finite decimals
Cmp(d, x) ==
  LET ds == Sign(d)
      xs == Sign(x)
  IN  IF ds < xs THEN -1
      ELSE IF ds > xs THEN 1
      ELSE IF ds = 0 THEN 0
      ELSE LET dn == NumDigits(d) + d.exp
               xn == NumDigits(x) + x.exp
               e  == Min2(d.exp, x.exp)
               c  == IF dn < xn THEN -1
                     ELSE IF dn > xn THEN 1
                     ELSE CmpMag(Shift(d.coeff, d.exp - e),
                                 Shift(x.coeff, x.exp - e))
           IN  IF ds < 0 THEN 0 - c ELSE c

\* setExponent refuses an exponent outside MinExponent..MaxExponent
OutOfRange(e) == e < 0 - MaxExponent \/ e > MaxExponent

\* Rounder.Round with RoundHalfUp at the context's precision, then
\* setExponent: the value left in the destination and whether the
\* operation trapped. inexact is the Inexact condition, which is not a trap.
\* A subnormal result traps (Subnormal, SystemUnderflow) and leaves the
\* exact sum in the destination.
Round(d) ==
  LET nd   == NumDigits(d)
      diff == nd - Precision
  IN  IF Sign(d) # 0 /\ d.exp + nd - 1 < 0 - MaxExponent
        THEN [d |-> d, inexact |-> FALSE, err |-> TRUE]
      ELSE IF diff > MaxExponent
        THEN [d |-> d, inexact |-> FALSE, err |-> TRUE]
      ELSE IF diff > 0
        THEN LET y    == SubSeq(d.coeff, 1, Precision)
                 m    == \E i \in (Precision + 1)..nd : d.coeff[i] # 0
                 up   == d.coeff[Precision + 1] >= 5
                 y1   == IF m /\ up THEN AddMag(y, <<1>>) ELSE y
                 over == Len(y1) > Precision
                 y2   == IF over THEN SubSeq(y1, 1, Precision) ELSE y1
                 e2   == d.exp + diff + (IF over THEN 1 ELSE 0)
             IN  IF OutOfRange(d.exp) \/ e2 + Len(y2) - 1 > MaxExponent
                   THEN [d |-> [d EXCEPT !.coeff = y2], inexact |-> m, err |-> TRUE]
                   ELSE [d |-> [d EXCEPT !.coeff = y2, !.exp = e2],
                         inexact |-> m, err |-> FALSE]
      ELSE IF OutOfRange(d.exp) \/ d.exp + nd - 1 > MaxExponent
        THEN [d |-> d, inexact |-> FALSE, err |-> TRUE]
      ELSE [d |-> d, inexact |-> FALSE, err |-> FALSE]

\* the exact sum x + y (x - y when subtract), before any rounding
ExactAdd(x, y, subtract) ==
  LET xn == x.neg
      yn == (y.neg # subtract)
      s  == Min2(x.exp, y.exp)
      a  == Shift(x.coeff, x.exp - s)
      b  == Shift(y.coeff, y.exp - s)
  IN  IF xn = yn THEN Dec(xn, AddMag(a, b), s)
      ELSE IF CmpMag(a, b) = 0 THEN Dec(FALSE, <<>>, s)
      ELSE IF CmpMag(a, b) > 0 THEN Dec(xn, SubMag(a, b), s)
      ELSE Dec(~xn, SubMag(b, a), s)

\* Context.add: d.Set(x + y) or d.Set(x - y) rounded to the context's
\* precision. x is also the destination: on an error of upscale x is left
\* as it was, on a trap of the rounding it holds what the rounding left.
CtxAddSub(x, y, subtract) ==
  IF Max2(x.exp, y.exp) - Min2(x.exp, y.exp) > MaxExponent
    THEN [d |-> x, inexact |-> FALSE, err |-> TRUE]
    ELSE Round(ExactAdd(x, y, subtract))

CtxAdd(x, y) == CtxAddSub(x, y, FALSE)
CtxSub(x, y) == CtxAddSub(x, y, TRUE)

(***************************************************************************)
(* Account, Merchant, Transaction.                                         *)
(***************************************************************************)
MerchantIDs == 1..MaxMerchantID

\* &Merchant{apd.New(0, 0), apd.New(0, 0)}
NewMerchant == [Available |-> Zero, Captured |-> Zero]

\* Transaction{Type, MerchantID, Amount}; MerchantID is <<>> for a nil
\* pointer and <<id>> for a pointer to id
Transaction(type, merchantID, amount) ==
  [Type |-> type, MerchantID |-> merchantID, Amount |-> amount]

\* NewAccount: zero balances, nil merchant map, nil transaction slice
NewAccount(id) ==
  [ID |-> id, Available |-> Zero, Blocked |-> Zero,
   Merchants |-> <<>>, Transactions |-> <<>>]

\* what a method call leaves: the account, the error returned, and whether
\* any decimal operation of the call raised the Inexact condition (the
\* methods discard the conditions: `_, err := ctx.Add(...)`)
Result(a, err, inexact) == [acct |-> a, err |-> err, inexact |-> inexact]

\* the merchant map made anew on every creation, not only when it is nil
PutMerchant_ReplacesMap(a, merchantID, m) ==
  [a EXCEPT !.Merchants = [k \in {merchantID} |-> m]]

\* a.Merchants[merchantID] = m
PutMerchant(a, merchantID, m) ==
  [a EXCEPT !.Merchants =
     [k \in (DOMAIN a.Merchants) \cup {merchantID} |->
        IF k = merchantID THEN m ELSE a.Merchants[k]]]

\* the record put at the head of the log instead of its end
AppendTransaction_Prepends(a, type, merchantID, amount) ==
  [a EXCEPT !.Transactions = <<Transaction(type, merchantID, amount)>> \o @]

\* a.Transactions = append(a.Transactions, Transaction{...})
AppendTransaction(a, type, merchantID, amount) ==
  [a EXCEPT !.Transactions = Append(@, Transaction(type, merchantID, amount))]

\* Account.Load
AccountLoad(a, amount) ==
  IF IsNil(amount) THEN Result(a, Panic, FALSE)
  ELSE LET r1 == CtxAdd(a.Available, amount)
           a1 == [a EXCEPT !.Available = r1.d]
       IN  IF r1.err THEN Result(a1, ErrArithmetic, r1.inexact)
           ELSE Result(AppendTransaction(a1, OpLoad, <<>>, amount),
                       ErrNone, r1.inexact)

\* Account.Authorize past its precondition: the three balance updates, the
\* lazy creation of the merchant sub-ledger, and the log record
AuthorizeApply(a, merchantID, amount) ==
    LET r1 == CtxSub(a.Available, amount)
        a1 == [a EXCEPT !.Available = r1.d]
    IN  IF r1.err THEN Result(a1, ErrArithmetic, r1.inexact)
        ELSE
    LET r2 == CtxAdd(a1.Blocked, amount)
        a2 == [a1 EXCEPT !.Blocked = r2.d]
    IN  IF r2.err THEN Result(a2, ErrArithmetic, r1.inexact \/ r2.inexact)
        ELSE
    LET a3 == IF merchantID \in DOMAIN a2.Merchants THEN a2
              ELSE PutMerchant(a2, merchantID, NewMerchant)
        r3 == CtxAdd(a3.Merchants[merchantID].Available, amount)
        a4 == [a3 EXCEPT !.Merchants[merchantID].Available = r3.d]
        ix == r1.inexact \/ r2.inexact \/ r3.inexact
    IN  IF r3.err THEN Result(a4, ErrArithmetic, ix)
        ELSE Result(AppendTransaction(a4, OpAuthorize, <<merchantID>>, amount),
                    ErrNone, ix)

\* Authorize with the merchant sub-ledger created on entry, before the
\* precondition is checked
AccountAuthorize_CreatesMerchantFirst(a, merchantID, amount) ==
  LET a0 == IF merchantID \in DOMAIN a.Merchants THEN a
            ELSE PutMerchant(a, merchantID, NewMerchant)
  IN  IF IsNil(amount) THEN Result(a0, Panic, FALSE)
      ELSE IF Cmp(a0.Available, amount) < 0 THEN Result(a0, ErrUnderflow, FALSE)
      ELSE AuthorizeApply(a0, merchantID, amount)

\* Account.Authorize
AccountAuthorize(a, merchantID, amount) ==
  IF IsNil(amount) THEN Result(a, Panic, FALSE)
  ELSE IF Cmp(a.Available, amount) < 0 THEN Result(a, ErrUnderflow, FALSE)
  ELSE AuthorizeApply(a, merchantID, amount)

\* Capture that gives the captured amount back to the cardholder's available
\* balance, as Reverse does
CaptureApply_ReturnsToAvailable(a, merchantID, amount) ==
    LET r1 == CtxSub(a.Merchants[merchantID].Available, amount)
        r2 == CtxAdd(a.Merchants[merchantID].Captured, amount)
        r3 == CtxSub(a.Blocked, amount)
        r4 == CtxAdd(a.Available, amount)
        a4 == [a EXCEPT !.Merchants[merchantID].Available = r1.d,
                        !.Merchants[merchantID].Captured = r2.d,
                        !.Blocked = r3.d,
                        !.Available = r4.d]
    IN  Result(AppendTransaction(a4, OpCapture, <<merchantID>>, amount), ErrNone,
               r1.inexact \/ r2.inexact \/ r3.inexact \/ r4.inexact)

\* Account.Capture past its preconditions: the three balance updates and the
\* log record
CaptureApply(a, merchantID, amount) ==
    LET r1 == CtxSub(a.Merchants[merchantID].Available, amount)
        a1 == [a EXCEPT !.Merchants[merchantID].Available = r1.d]
    IN  IF r1.err THEN Result(a1, ErrArithmetic, r1.inexact)
        ELSE
    LET r2 == CtxAdd(a1.Merchants[merchantID].Captured, amount)
        a2 == [a1 EXCEPT !.Merchants[merchantID].Captured = r2.d]
    IN  IF r2.err THEN Result(a2, ErrArithmetic, r1.inexact \/ r2.inexact)
        ELSE
    LET r3 == CtxSub(a2.Blocked, amount)
        a3 == [a2 EXCEPT !.Blocked = r3.d]
        ix == r1.inexact \/ r2.inexact \/ r3.inexact
    IN  IF r3.err THEN Result(a3, ErrArithmetic, ix)
        ELSE Result(AppendTransaction(a3, OpCapture, <<merchantID>>, amount),
                    ErrNone, ix)

\* Capture with the bound check written `<= 0`: an amount equal to the hold
\* is refused
AccountCapture_StrictBound(a, merchantID, amount) ==
  IF merchantID \notin DOMAIN a.Merchants
    THEN Result(a, ErrMerchantNotFound, FALSE)
  ELSE IF IsNil(amount) THEN Result(a, Panic, FALSE)
  ELSE IF Cmp(a.Merchants[merchantID].Available, amount) <= 0
    THEN Result(a, ErrUnderflow, FALSE)
  ELSE CaptureApply(a, merchantID, amount)

\* Account.Capture
AccountCapture(a, merchantID, amount) ==
  IF merchantID \notin DOMAIN a.Merchants
    THEN Result(a, ErrMerchantNotFound, FALSE)
  ELSE IF IsNil(amount) THEN Result(a, Panic, FALSE)
  ELSE IF Cmp(a.Merchants[merchantID].Available, amount) < 0
    THEN Result(a, ErrUnderflow, FALSE)
  ELSE CaptureApply(a, merchantID, amount)

\* Account.Reverse past its preconditions
ReverseApply(a, merchantID, amount) ==
    LET r1 == CtxSub(a.Merchants[merchantID].Available, amount)
        a1 == [a EXCEPT !.Merchants[merchantID].Available = r1.d]
    IN  IF r1.err THEN Result(a1, ErrArithmetic, r1.inexact)
        ELSE
    LET r2 == CtxSub(a1.Blocked, amount)
        a2 == [a1 EXCEPT !.Blocked = r2.d]
    IN  IF r2.err THEN Result(a2, ErrArithmetic, r1.inexact \/ r2.inexact)
        ELSE
    LET r3 == CtxAdd(a2.Available, amount)
        a3 == [a2 EXCEPT !.Available = r3.d]
        ix == r1.inexact \/ r2.inexact \/ r3.inexact
    IN  IF r3.err THEN Result(a3, ErrArithmetic, ix)
        ELSE Result(AppendTransaction(a3, OpReverse, <<merchantID>>, amount),
                    ErrNone, ix)

\* Account.Reverse
AccountReverse(a, merchantID, amount) ==
  IF merchantID \notin DOMAIN a.Merchants
    THEN Result(a, ErrMerchantNotFound, FALSE)
  ELSE IF IsNil(amount) THEN Result(a, Panic, FALSE)
  ELSE IF Cmp(a.Merchants[merchantID].Available, amount) < 0
    THEN Result(a, ErrUnderflow, FALSE)
  ELSE ReverseApply(a, merchantID, amount)

\* Account.Refund past its preconditions
RefundApply(a, merchantID, amount) ==
    LET r1 == CtxSub(a.Merchants[merchantID].Captured, amount)
        a1 == [a EXCEPT !.Merchants[merchantID].Captured = r1.d]
    IN  IF r1.err THEN Result(a1, ErrArithmetic, r1.inexact)
        ELSE
    LET r2 == CtxAdd(a1.Available, amount)
        a2 == [a1 EXCEPT !.Available = r2.d]
        ix == r1.inexact \/ r2.inexact
    IN  IF r2.err THEN Result(a2, ErrArithmetic, ix)
        ELSE Result(AppendTransaction(a2, OpRefund, <<merchantID>>, amount),
                    ErrNone, ix)

\* Refund that compares the amount with the captured balance (zero for a
\* merchant it does not know) before it looks the merchant up
AccountRefund_AmountFirst(a, merchantID, amount) ==
  LET captured == IF merchantID \in DOMAIN a.Merchants
                    THEN a.Merchants[merchantID].Captured ELSE Zero
  IN  IF IsNil(amount) THEN Result(a, Panic, FALSE)
      ELSE IF Cmp(captured, amount) < 0 THEN Result(a, ErrUnderflow, FALSE)
      ELSE IF merchantID \notin DOMAIN a.Merchants
        THEN Result(a, ErrMerchantNotFound, FALSE)
      ELSE RefundApply(a, merchantID, amount)

\* Account.Refund
AccountRefund(a, merchantID, amount) ==
  IF merchantID \notin DOMAIN a.Merchants
    THEN Result(a, ErrMerchantNotFound, FALSE)
  ELSE IF IsNil(amount) THEN Result(a, Panic, FALSE)
  ELSE IF Cmp(a.Merchants[merchantID].Captured, amount) < 0
    THEN Result(a, ErrUnderflow, FALSE)
  ELSE RefundApply(a, merchantID, amount)

\* Balance{Total, Available, Blocked}: Total is a decimal of its own
\* (apd.New(0, 0), then the sum); Available and Blocked are the account's
\* own pointers a.Available and a.Blocked, named here by the field they
\* point to. at and inexact record the values the two fields had, and whether
\* the sum was rounded, when the Balance was returned.
Balance(total, a, inexact) ==
  [Total |-> total, Available |-> "a.Available", Blocked |-> "a.Blocked",
   at |-> [Available |-> a.Available, Blocked |-> a.Blocked],
   inexact |-> inexact]

\* the nil *Balance
NilBalance ==
  [Total |-> NilDecimal, Available |-> "nil", Blocked |-> "nil",
   at |-> [Available |-> NilDecimal, Blocked |-> NilDecimal],
   inexact |-> FALSE]

\* Account.Balance: the account is left as it is
AccountBalance(a) ==
  LET r == CtxAdd(a.Available, a.Blocked)
  IN  IF r.err
        THEN [acct |-> a, err |-> ErrArithmetic, inexact |-> r.inexact,
              balance |-> NilBalance]
        ELSE [acct |-> a, err |-> ErrNone, inexact |-> r.inexact,
              balance |-> Balance(r.d, a, r.inexact)]

\* the decimal a pointer held by a Balance points to, in account a
Deref(a, pointer) ==
  IF pointer = "a.Available" THEN a.Available ELSE a.Blocked

\* Operation.String
OpString(op) ==
  CASE op = OpLoad -> "LOAD"
    [] op = OpAuthorize -> "AUTHORIZE"
    [] op = OpCapture -> "CAPTURE"
    [] op = OpReverse -> "REVERSE"
    [] op = OpRefund -> "REFUND"
    [] OTHER -> "UNKNOWN"

Digit == <<"0", "1", "2", "3", "4", "5", "6", "7", "8", "9">>

\* strconv.Itoa
RECURSIVE Itoa(_)
Itoa(n) ==
  IF n < 0 THEN "-" \o Itoa(0 - n)
  ELSE IF n < 10 THEN Digit[n + 1]
  ELSE Itoa(n \div 10) \o Digit[(n % 10) + 1]

\* whether Decimal.Float64 returns an error: the value is beyond the range
\* of float64 (a value that underflows converts to 0 without an error)
Float64Fails(d) ==
  Sign(d) # 0 /\ d.exp + NumDigits(d) - 1 > MaxFloat64Exponent

\* one row of the table: the cells written by
\* Fprintf(" %-6d | %-9s | %-8s | %9.2f\n", i, v.Type, merchant, f), without
\* their padding. The amount cell is a float64 printed with two decimals
\* and is not rendered here.
Row(i, v) ==
  [ID |-> Itoa(i), Type |-> OpString(v.Type),
   Merchant |-> IF v.MerchantID = <<>> THEN "" ELSE Itoa(v.MerchantID[1])]

\* what Statement returns: the error, whether the text holds the
\* "*** NO TRANSACTIONS ***" line, and the rows of its table. On an error
\* the text is empty.
StatementText(err, placeholder, rows) ==
  [err |-> err, placeholder |-> placeholder, rows |-> rows]

\* Account.Statement
AccountStatement(a) ==
  LET b == AccountBalance(a)
      n == Len(a.Transactions)
      out(s) == [acct |-> a, err |-> s.err, inexact |-> b.inexact,
                 statement |-> s]
  IN  IF b.err # ErrNone
        THEN out(StatementText(b.err, FALSE, <<>>))
      ELSE IF \/ Float64Fails(Deref(a, b.balance.Available))
              \/ Float64Fails(Deref(a, b.balance.Blocked))
              \/ Float64Fails(b.balance.Total)
        THEN out(StatementText(ErrRange, FALSE, <<>>))
      ELSE IF n = 0
        THEN out(StatementText(ErrNone, TRUE, <<>>))
      ELSE IF \E i \in 1..n : Float64Fails(a.Transactions[i].Amount)
        THEN out(StatementText(ErrRange, FALSE, <<>>))
      ELSE out(StatementText(ErrNone, FALSE,
                             [i \in 1..n |-> Row(i - 1, a.Transactions[i])]))

(***************************************************************************)
(* Amounts a caller passes.                                                *)
(***************************************************************************)
\* apd.New(1, 0), apd.New(-1, 0)
One == Dec(FALSE, <<1>>, 0)
MinusOne == Dec(TRUE, <<1>>, 0)
\* "9999999999999999": the largest integer of Precision digits
AllNines == Dec(FALSE, [i \in 1..Precision |-> 9], 0)
\* "2E+16"
TwoE16 == Dec(FALSE, <<2>>, Precision)

Amounts == {NilDecimal, MinusOne, One, AllNines, TwoE16}

\* apd.New(1, -100000): the smallest power of ten a balance can hold
MinUnit == Dec(FALSE, <<1>>, 0 - MaxExponent)
\* apd.New(1, -100001)
BelowMin == Dec(FALSE, <<1>>, 0 - MaxExponent - 1)
\* apd.New(0, 100001): zero written with an exponent above MaxExponent
ZeroHigh == Dec(FALSE, <<>>, MaxExponent + 1)

\* apd.New(1, 400): within the decimal context's range, beyond float64's
Huge == Dec(FALSE, <<1>>, 400)

EdgeAmounts == {Huge, ZeroHigh, MinUnit, BelowMin}

(***************************************************************************)
(* State: one account, the last call made on it with what it returned, the *)
(* number of calls so far that returned an arithmetic error, the last      *)
(* Balance a caller was given and still holds, and the last statement a    *)
(* caller was given.                                                       *)
(***************************************************************************)
VARIABLES account, ret, failures, balance, statement

(***************************************************************************)
(* State of the service (service/api): the package variables accounts and  *)
(* accountsMap (one directory: the ids of the accounts registered, in the  *)
(* order of the slice), the lock accountsMu, the file db.json, and for each *)
(* request its content, the place its handler has reached and its response.*)
(* order lists the requests in the order they acquired accountsMu.Lock;    *)
(* crashed is set when the Go runtime has ended the process; loaded is the *)
(* directory main read from db.json when the service started; written is   *)
(* the last snapshot that writeDB wrote completely.                        *)
(***************************************************************************)
VARIABLES accounts, accountsMu, db, req, pc, resp, order, crashed, loaded,
          written

svars == <<accounts, accountsMu, db, req, pc, resp, order, crashed, loaded,
           written>>

vars == <<account, ret, failures, balance, statement,
          accounts, accountsMu, db, req, pc, resp, order, crashed, loaded,
          written>>

Requests == 1..MaxRequests

\* handlers that call a mutating method of the account (load, transaction)
LedgerHandlers == {"load", "authorize", "capture", "reverse", "refund"}

\* handlers that take accountsMu.Lock()
LockingHandlers == LedgerHandlers \cup {"createAccount", "statement"}

\* a request: the handler its route selects, and the merchantID and amount
\* of its body
Request(handler, merchantID, amount) ==
  [handler |-> handler, merchantID |-> merchantID, amount |-> amount]

NoRequest == Request("", <<>>, NilDecimal)

\* amounts sent in request bodies: "1"
ServiceAmounts == {One}

RequestPool ==
  {Request(h, <<>>, NilDecimal) :
     h \in {"getAccounts", "createAccount", "getAccount", "statement"}}
  \cup {Request("load", <<>>, a) : a \in ServiceAmounts}
  \cup {Request(h, <<m>>, a) :
          h \in LedgerHandlers \ {"load"}, m \in MerchantIDs, a \in ServiceAmounts}

\* a response: the status, and the body written
Response(status, body) == [status |-> status, body |-> body]

NoResponse == Response("", <<>>)

\* the content of db.json after json.NewEncoder(f).Encode(accounts)
Snapshot(ids, a) == [accounts |-> ids, account |-> a]

\* db.json as loadDB finds it on a first start: no accounts
EmptyDB == Snapshot(<<>>, NewAccount(0))

\* db.json truncated by O_TRUNC and not, or not completely, written
PartialDB == [accounts |-> <<>>, account |-> "partial"]

\* writeDB: the file is written; os.OpenFile fails; Encode fails
DbOutcomes == {"written", "open failed", "write failed"}

\* the record of a call: the method, its arguments, what it returned and
\* the account as it was when the call was made
Call(method, merchantID, amount, r, before) ==
  [method |-> method, merchantID |-> merchantID, amount |-> amount,
   err |-> r.err, inexact |-> r.inexact, before |-> before]

\* NewAccount(0), no call made yet
InitAccount ==
  /\ account = NewAccount(0)
  /\ ret = Call("", <<>>, NilDecimal, Result(account, ErrNone, FALSE), account)
  /\ failures = 0
  /\ balance = NilBalance
  /\ statement = StatementText(ErrNone, FALSE, <<>>)

\* main: accounts, accountsMap, err = loadDB(dbFile), with db.json holding
\* the accounts ids; no request has arrived
Started(ids) ==
  /\ loaded = ids
  /\ accounts = ids
  /\ accountsMu = [writer |-> {}, readers |-> {}]
  /\ db = Snapshot(ids, NewAccount(0))
  /\ written = db
  /\ req = [p \in Requests |-> NoRequest]
  /\ pc = [p \in Requests |-> "idle"]
  /\ resp = [p \in Requests |-> NoResponse]
  /\ order = <<>>
  /\ crashed = FALSE

Init == InitAccount /\ Started(<<>>)

\* the exploration stops a caller at MaxTx records and MaxFailures
\* arithmetic errors
Callable ==
  /\ Len(account.Transactions) < MaxTx
  /\ failures < MaxFailures

\* the method has run on the account and returned r
Returns(method, merchantID, amount, r) ==
  /\ account' = r.acct
  /\ ret' = Call(method, merchantID, amount, r, account)
  /\ failures' = IF r.err = ErrArithmetic THEN failures + 1 ELSE failures
  /\ UNCHANGED <<balance, statement>>

\* a caller drawing its amounts from pool calls Load
LoadFrom(pool) ==
  \E amount \in pool :
    /\ Callable
    /\ \E r \in {AccountLoad(account, amount)} :
         Returns("Load", <<>>, amount, r)
    /\ UNCHANGED svars

AuthorizeFrom(pool) ==
  \E merchantID \in MerchantIDs, amount \in pool :
    /\ Callable
    /\ \E r \in {AccountAuthorize(account, merchantID, amount)} :
         Returns("Authorize", <<merchantID>>, amount, r)
    /\ UNCHANGED svars

CaptureFrom(pool) ==
  \E merchantID \in MerchantIDs, amount \in pool :
    /\ Callable
    /\ \E r \in {AccountCapture(account, merchantID, amount)} :
         Returns("Capture", <<merchantID>>, amount, r)
    /\ UNCHANGED svars

ReverseFrom(pool) ==
  \E merchantID \in MerchantIDs, amount \in pool :
    /\ Callable
    /\ \E r \in {AccountReverse(account, merchantID, amount)} :
         Returns("Reverse", <<merchantID>>, amount, r)
    /\ UNCHANGED svars

RefundFrom(pool) ==
  \E merchantID \in MerchantIDs, amount \in pool :
    /\ Callable
    /\ \E r \in {AccountRefund(account, merchantID, amount)} :
         Returns("Refund", <<merchantID>>, amount, r)
    /\ UNCHANGED svars

\* callers that pass everyday amounts
Load == LoadFrom(Amounts)
Authorize == AuthorizeFrom(Amounts)
Capture == CaptureFrom(Amounts)
Reverse == ReverseFrom(Amounts)
Refund == RefundFrom(Amounts)

Next == Load \/ Authorize \/ Capture \/ Reverse \/ Refund

Spec == Init /\ [][Next]_vars

\* a caller asks for the balance and keeps what it is given
GetBalance ==
  /\ failures < MaxFailures
  /\ \E r \in {AccountBalance(account)} :
       /\ account' = r.acct
       /\ ret' = Call("Balance", <<>>, NilDecimal, r, account)
       /\ failures' = IF r.err = ErrArithmetic THEN failures + 1 ELSE failures
       /\ balance' = r.balance
       /\ UNCHANGED statement
  /\ UNCHANGED svars

NextBalance == Next \/ GetBalance

SpecBalance == Init /\ [][NextBalance]_vars

\* callers that pass amounts at the edge of the exponent range
LoadEdge == LoadFrom(EdgeAmounts)
AuthorizeEdge == AuthorizeFrom(EdgeAmounts)
CaptureEdge == CaptureFrom(EdgeAmounts)
ReverseEdge == ReverseFrom(EdgeAmounts)
RefundEdge == RefundFrom(EdgeAmounts)

\* a caller asks for the statement
GetStatement ==
  /\ failures < MaxFailures
  /\ \E r \in {AccountStatement(account)} :
       /\ account' = r.acct
       /\ ret' = Call("Statement", <<>>, NilDecimal, r, account)
       /\ failures' = IF r.err = ErrArithmetic THEN failures + 1 ELSE failures
       /\ statement' = r.statement
       /\ UNCHANGED balance
  /\ UNCHANGED svars

NextEdge ==
  \/ LoadEdge \/ AuthorizeEdge \/ CaptureEdge \/ ReverseEdge \/ RefundEdge
  \/ GetStatement

SpecEdge == Init /\ [][NextEdge]_vars

(***************************************************************************)
(* The handlers of the service.                                            *)
(***************************************************************************)
\* accountsMap[id] exists
Registered(ids) == \E k \in DOMAIN ids : ids[k] = account.ID

\* the method a ledger handler calls on the account
LedgerCall(a, r) ==
  CASE r.handler = "load" -> AccountLoad(a, r.amount)
    [] r.handler = "authorize" -> AccountAuthorize(a, r.merchantID[1], r.amount)
    [] r.handler = "capture" -> AccountCapture(a, r.merchantID[1], r.amount)
    [] r.handler = "reverse" -> AccountReverse(a, r.merchantID[1], r.amount)
    [] r.handler = "refund" -> AccountRefund(a, r.merchantID[1], r.amount)

\* the name of the method a ledger handler calls
MethodOf(handler) ==
  CASE handler = "load" -> "Load"
    [] handler = "authorize" -> "Authorize"
    [] handler = "capture" -> "Capture"
    [] handler = "reverse" -> "Reverse"
    [] handler = "refund" -> "Refund"

\* a Lock() that returns at once, whoever holds the lock
CanLock_NeverWaits == TRUE

\* accountsMu.Lock() returns when no one holds the lock
CanLock == accountsMu.writer = {} /\ accountsMu.readers = {}

\* accountsMu.RLock() returns when no writer holds the lock
CanRLock == accountsMu.writer = {}

\* the handler returns: request p has its response, and the deferred
\* accountsMu.Unlock() or the RUnlock() has run
Respond(p, response) ==
  /\ resp' = [resp EXCEPT ![p] = response]
  /\ pc' = [pc EXCEPT ![p] = "done"]
  /\ accountsMu' = [writer |-> accountsMu.writer \ {p},
                    readers |-> accountsMu.readers \ {p}]

\* updateDB(w, i) and the return of the handler: writeDB(dbFile, accounts)
\* writes the directory as it is after the handler's change, or fails; on
\* a failure the response is a 500 and what the handler changed in memory
\* stays changed
UpdateDB(p, ids, a) ==
  \E outcome \in DbOutcomes :
    /\ db' = CASE outcome = "written" -> Snapshot(ids, a)
               [] outcome = "open failed" -> db
               [] outcome = "write failed" -> PartialDB
    /\ written' = IF outcome = "written" THEN Snapshot(ids, a) ELSE written
    /\ Respond(p, IF outcome = "written"
                    THEN Response("200 OK", a)
                    ELSE Response("500 Internal Server Error", <<>>))

\* a request reaches the router; requests are numbered in the order they
\* arrive
Arrive(p) ==
  /\ ~crashed
  /\ pc[p] = "idle"
  /\ \A q \in Requests : q < p => pc[q] # "idle"
  /\ \E r \in RequestPool : req' = [req EXCEPT ![p] = r]
  /\ pc' = [pc EXCEPT ![p] = "start"]
  /\ UNCHANGED <<account, ret, failures, balance, statement,
                 accounts, accountsMu, db, resp, order, crashed, loaded, written>>

\* createAccount, statement, load, transaction: accountsMu.Lock()
Lock(p) ==
  /\ ~crashed
  /\ pc[p] = "start"
  /\ req[p].handler \in LockingHandlers
  /\ CanLock
  /\ accountsMu' = [accountsMu EXCEPT !.writer = {p}]
  /\ order' = Append(order, p)
  /\ pc' = [pc EXCEPT ![p] = "locked"]
  /\ UNCHANGED <<account, ret, failures, balance, statement,
                 accounts, db, req, resp, crashed, loaded, written>>

\* createAccount under the lock: 409 for an id already registered, else
\* the new account is appended, mapped and the directory written
CreateAccount(p) ==
  /\ ~crashed
  /\ pc[p] = "locked"
  /\ req[p].handler = "createAccount"
  /\ IF Registered(accounts)
       THEN /\ Respond(p, Response("409 Conflict", <<>>))
            /\ UNCHANGED <<account, accounts, db, written>>
       ELSE /\ account' = NewAccount(account.ID)
            /\ accounts' = Append(accounts, account.ID)
            /\ UpdateDB(p, accounts', account')
  /\ UNCHANGED <<ret, failures, balance, statement, req, order, crashed, loaded>>

\* load and transaction under the lock: 404 for an unknown account, else
\* the method is called; 500 when it returns an error, else the directory
\* is written
LedgerRequest(p) ==
  /\ ~crashed
  /\ pc[p] = "locked"
  /\ req[p].handler \in LedgerHandlers
  /\ IF ~Registered(accounts)
       THEN /\ Respond(p, Response("404 Not Found", <<>>))
            /\ UNCHANGED <<account, ret, failures, balance, statement, db,
                           written>>
       ELSE \E r \in {LedgerCall(account, req[p])} :
              /\ Returns(MethodOf(req[p].handler), req[p].merchantID,
                         req[p].amount, r)
              /\ IF r.err # ErrNone
                   THEN /\ Respond(p, Response("500 Internal Server Error", <<>>))
                        /\ UNCHANGED <<db, written>>
                   ELSE UpdateDB(p, accounts, r.acct)
  /\ UNCHANGED <<accounts, req, order, crashed, loaded>>

\* statement under the lock
StatementRequest(p) ==
  /\ ~crashed
  /\ pc[p] = "locked"
  /\ req[p].handler = "statement"
  /\ IF ~Registered(accounts)
       THEN /\ Respond(p, Response("404 Not Found", <<>>))
            /\ UNCHANGED <<account, ret, failures, statement>>
       ELSE \E r \in {AccountStatement(account)} :
              /\ account' = r.acct
              /\ ret' = Call("Statement", <<>>, NilDecimal, r, account)
              /\ failures' = IF r.err = ErrArithmetic THEN failures + 1
                              ELSE failures
              /\ statement' = r.statement
              /\ Respond(p, IF r.err # ErrNone
                              THEN Response("500 Internal Server Error", <<>>)
                              ELSE Response("200 OK", r.statement))
  /\ UNCHANGED <<balance, accounts, db, req, order, crashed, loaded, written>>

\* getAccounts: accountsMu.RLock()
RLock(p) ==
  /\ ~crashed
  /\ pc[p] = "start"
  /\ req[p].handler = "getAccounts"
  /\ CanRLock
  /\ accountsMu' = [accountsMu EXCEPT !.readers = @ \cup {p}]
  /\ pc' = [pc EXCEPT ![p] = "rlocked"]
  /\ UNCHANGED <<account, ret, failures, balance, statement,
                 accounts, db, req, resp, order, crashed, loaded, written>>

\* getAccounts under the read lock: the directory is encoded, then
\* accountsMu.RUnlock()
GetAccounts(p) ==
  /\ ~crashed
  /\ pc[p] = "rlocked"
  /\ Respond(p, Response("200 OK", Snapshot(accounts, account)))
  /\ UNCHANGED <<account, ret, failures, balance, statement,
                 accounts, db, req, order, crashed, loaded, written>>

\* request q holds the lock and its next statement writes accountsMap and
\* accounts
WritesDirectory(q) ==
  /\ pc[q] = "locked"
  /\ req[q].handler = "createAccount"
  /\ ~Registered(accounts)

\* request q holds the lock and is in a method call that writes the account
WritesAccount(q) ==
  /\ pc[q] = "locked"
  /\ req[q].handler \in LedgerHandlers
  /\ Registered(accounts)
  /\ LedgerCall(account, req[q]).acct # account

\* getAccount, first half: getAccountValue reads accountsMap, with no lock
\* taken. Next to a createAccount that is writing the map this is a data
\* race: the lookup finds the account or not, or the runtime ends the
\* process ("concurrent map read and map write").
GetAccountLookup(p) ==
  /\ ~crashed
  /\ pc[p] = "start"
  /\ req[p].handler = "getAccount"
  /\ \E found \in IF \E q \in Requests : WritesDirectory(q)
                    THEN {"yes", "no", "fatal error"}
                    ELSE {IF Registered(accounts) THEN "yes" ELSE "no"} :
       /\ pc' = [pc EXCEPT ![p] = IF found = "yes" THEN "encode" ELSE "done"]
       /\ resp' = [resp EXCEPT ![p] =
                     IF found = "no" THEN Response("404 Not Found", <<>>) ELSE @]
       /\ crashed' = (found = "fatal error")
  /\ UNCHANGED <<account, ret, failures, balance, statement,
                 accounts, accountsMu, db, req, order, loaded, written>>

\* getAccount, second half: writeJSON reads the account's fields, with no
\* lock taken. Next to a method call that is writing them this is a data
\* race: the body holds the account as it is, or a mix of its fields
\* before and after the call.
GetAccountEncode(p) ==
  /\ ~crashed
  /\ pc[p] = "encode"
  /\ \E torn \in IF \E q \in Requests : WritesAccount(q)
                   THEN BOOLEAN
                   ELSE {FALSE} :
       resp' = [resp EXCEPT ![p] =
                  Response("200 OK", IF torn THEN "torn" ELSE account)]
  /\ pc' = [pc EXCEPT ![p] = "done"]
  /\ UNCHANGED <<account, ret, failures, balance, statement,
                 accounts, accountsMu, db, req, order, crashed, loaded, written>>

NextService ==
  \E p \in Requests :
    \/ Arrive(p)
    \/ Lock(p)
    \/ CreateAccount(p)
    \/ LedgerRequest(p)
    \/ StatementRequest(p)
    \/ RLock(p)
    \/ GetAccounts(p)
    \/ GetAccountLookup(p)
    \/ GetAccountEncode(p)

\* the service starts on a db.json that is empty or holds account 0
InitService ==
  /\ InitAccount
  /\ \E ids \in {<<>>, <<account.ID>>} : Started(ids)

SpecService == InitService /\ [][NextService]_vars

(***************************************************************************)
(* Exact values, for stating what the balances should be.                  *)
(***************************************************************************)
\* numerical equality of two decimals (1E+1 and 10 are equal)
NumEq(x, y) == Cmp(x, y) = 0

Plus(x, y) == ExactAdd(x, y, FALSE)
Minus(x, y) == ExactAdd(x, y, TRUE)

\* Balance().Total without the rounding: available + blocked
Total(a) == Plus(a.Available, a.Blocked)

RECURSIVE SumAvailable(_, _)
SumAvailable(ms, ids) ==
  IF ids = {} THEN Zero
  ELSE LET k == CHOOSE k \in ids : TRUE
       IN  Plus(ms[k].Available, SumAvailable(ms, ids \ {k}))

\* the sum of merchant.available over the merchant sub-ledgers of a
Holds(a) == SumAvailable(a.Merchants, DOMAIN a.Merchants)

\* the last call was method and returned no error
Succeeded(method) == ret.method = method /\ ret.err = ErrNone

\* the merchant the last call named
RetMerchant == ret.merchantID[1]

\* merchant merchantID's sub-ledger in a, the zero sub-ledger when it has none
MerchantOf(a, merchantID) ==
  IF merchantID \in DOMAIN a.Merchants THEN a.Merchants[merchantID]
  ELSE NewMerchant

MerchantMethods == {"Capture", "Reverse", "Refund"}

\* the Operation a method records in the log
OpOf(method) ==
  CASE method = "Load" -> OpLoad
    [] method = "Authorize" -> OpAuthorize
    [] method = "Capture" -> OpCapture
    [] method = "Reverse" -> OpReverse
    [] method = "Refund" -> OpRefund

(***************************************************************************)
(* Claims.                                                                 *)
(***************************************************************************)

\* C1: in every reachable state the account's blocked balance equals the
\* sum of merchant.available over all of its merchant sub-ledgers.
C1_BlockedIsSumOfHolds == NumEq(account.Blocked, Holds(account))

\* C2: in every reachable state available, blocked and every merchant's
\* available and captured are >= 0.
C2_BalancesNonNegative ==
  /\ Sign(account.Available) >= 0
  /\ Sign(account.Blocked) >= 0
  /\ \A m \in DOMAIN account.Merchants :
       /\ Sign(account.Merchants[m].Available) >= 0
       /\ Sign(account.Merchants[m].Captured) >= 0

\* C3: a call of Authorize, Capture, Reverse or Refund that returns
\* ErrUnderflow or ErrMerchantNotFound leaves the account exactly as it was:
\* balances, merchant map (no sub-ledger created) and transaction log.
C3_FailedCallChangesNothing ==
  ( /\ ret.method \in {"Authorize", "Capture", "Reverse", "Refund"}
    /\ ret.err \in {ErrUnderflow, ErrMerchantNotFound} )
  => account = ret.before

\* a failed Authorize for a merchant that has no sub-ledger, on an account
\* that already has a log and another merchant
C3_Witness ==
  /\ ret.method = "Authorize"
  /\ ret.err = ErrUnderflow
  /\ RetMerchant \notin DOMAIN account.Merchants
  /\ DOMAIN account.Merchants # {}
  /\ Len(account.Transactions) = 2

\* C4 as stated: every successful Authorize, Capture, Reverse and Refund
\* leaves the total (available + blocked) equal to its value before the
\* call. Stated here for the calls that name a positive amount and whose
\* decimal results are exact.
C4_TotalKeptByEveryMerchantCall ==
  ( /\ ret.method \in {"Authorize", "Capture", "Reverse", "Refund"}
    /\ ret.err = ErrNone
    /\ ~ret.inexact
    /\ Sign(ret.amount) > 0 )
  => NumEq(Total(account), Total(ret.before))

\* C4 amended: of the successful calls whose decimal results are exact,
\* Authorize and Reverse leave the total equal to its value before the call,
\* Capture lowers it by the amount and Refund raises it by the amount.
C4_TotalMovedByCaptureAndRefund ==
  (ret.err = ErrNone /\ ~ret.inexact) =>
    /\ ret.method \in {"Authorize", "Reverse"}
         => NumEq(Total(account), Total(ret.before))
    /\ ret.method = "Capture"
         => NumEq(Total(account), Minus(Total(ret.before), ret.amount))
    /\ ret.method = "Refund"
         => NumEq(Total(account), Plus(Total(ret.before), ret.amount))

\* a successful, exact Capture of a positive amount has lowered the total
C4_Witness ==
  /\ Succeeded("Capture")
  /\ ~ret.inexact
  /\ Sign(ret.amount) > 0
  /\ Cmp(Total(account), Total(ret.before)) < 0

\* C5: a successful call changes the total (available + blocked) by +amount
\* for Load, 0 for Authorize, -amount for Capture, 0 for Reverse and +amount
\* for Refund.
C5_TotalDelta ==
  ret.err = ErrNone =>
    /\ ret.method \in {"Load", "Refund"}
         => NumEq(Total(account), Plus(Total(ret.before), ret.amount))
    /\ ret.method \in {"Authorize", "Reverse"}
         => NumEq(Total(account), Total(ret.before))
    /\ ret.method = "Capture"
         => NumEq(Total(account), Minus(Total(ret.before), ret.amount))

\* C6: Capture, Reverse and Refund naming a merchant that has no sub-ledger
\* return ErrMerchantNotFound for every amount, a nil amount included: never
\* ErrUnderflow, and the amount is not looked at.
C6_UnknownMerchantNotFound ==
  ( /\ ret.method \in MerchantMethods
    /\ RetMerchant \notin DOMAIN ret.before.Merchants )
  => ret.err = ErrMerchantNotFound

\* Refund with a nil amount for an unknown merchant, on an account that has
\* another merchant, returned ErrMerchantNotFound
C6_Witness ==
  /\ ret.method = "Refund"
  /\ IsNil(ret.amount)
  /\ ret.err = ErrMerchantNotFound
  /\ DOMAIN account.Merchants # {}

\* C7: whenever Authorize(merchant, amount) succeeds, Reverse(merchant,
\* amount) right after it succeeds too and puts available, blocked and the
\* merchant's available back to their values before the Authorize, with the
\* merchant's captured unchanged and two records added to the log.
C7_AuthorizeThenReverseRestores ==
  \A merchantID \in MerchantIDs, amount \in Amounts :
    LET r1 == AccountAuthorize(account, merchantID, amount)
        r2 == AccountReverse(r1.acct, merchantID, amount)
    IN  r1.err = ErrNone =>
          /\ r2.err = ErrNone
          /\ NumEq(r2.acct.Available, account.Available)
          /\ NumEq(r2.acct.Blocked, account.Blocked)
          /\ NumEq(r2.acct.Merchants[merchantID].Available,
                   MerchantOf(account, merchantID).Available)
          /\ NumEq(r2.acct.Merchants[merchantID].Captured,
                   MerchantOf(account, merchantID).Captured)
          /\ Len(r2.acct.Transactions) = Len(account.Transactions) + 2

\* C8: whenever Authorize(merchant, amount) succeeds, Capture(merchant,
\* amount) right after it succeeds, leaves blocked and the merchant's
\* available at their values before the Authorize, lowers the total by the
\* amount and raises the merchant's captured by the amount.
C8_AuthorizeThenCapture ==
  \A merchantID \in MerchantIDs, amount \in Amounts :
    LET r1 == AccountAuthorize(account, merchantID, amount)
        r2 == AccountCapture(r1.acct, merchantID, amount)
    IN  r1.err = ErrNone =>
          /\ r2.err = ErrNone
          /\ NumEq(r2.acct.Blocked, account.Blocked)
          /\ NumEq(r2.acct.Merchants[merchantID].Available,
                   MerchantOf(account, merchantID).Available)
          /\ NumEq(Total(r2.acct), Minus(Total(account), amount))
          /\ NumEq(r2.acct.Merchants[merchantID].Captured,
                   Plus(MerchantOf(account, merchantID).Captured, amount))

\* the quantity a call's precondition compares the amount with
Bounded(a, method, merchantID) ==
  IF method = "Authorize" THEN a.Available
  ELSE IF method = "Refund" THEN a.Merchants[merchantID].Captured
  ELSE a.Merchants[merchantID].Available

\* C9: the preconditions are inclusive: Authorize with amount equal to
\* available, Capture or Reverse with amount equal to the merchant's
\* available and Refund with amount equal to the merchant's captured succeed
\* and leave that quantity at zero; with a larger amount the call returns
\* ErrUnderflow.
C9_InclusiveBounds ==
  ( /\ ret.method \in {"Authorize", "Capture", "Reverse", "Refund"}
    /\ ~IsNil(ret.amount)
    /\ ret.method = "Authorize" \/ RetMerchant \in DOMAIN ret.before.Merchants )
  => LET c == Cmp(Bounded(ret.before, ret.method, RetMerchant), ret.amount)
     IN  /\ c = 0 => /\ ret.err = ErrNone
                     /\ Sign(Bounded(account, ret.method, RetMerchant)) = 0
         /\ c < 0 => ret.err = ErrUnderflow

\* a Capture of exactly the merchant's positive hold succeeded
C9_Witness ==
  /\ Succeeded("Capture")
  /\ Sign(ret.amount) > 0
  /\ NumEq(ret.before.Merchants[RetMerchant].Available, ret.amount)
  /\ Sign(account.Merchants[RetMerchant].Available) = 0

\* C10: a successful Refund lowers the merchant's captured by the amount,
\* raises available by the amount and leaves blocked and every merchant's
\* available unchanged; a successful Reverse lowers the merchant's available
\* and blocked by the amount, raises available by the amount and leaves
\* every merchant's captured unchanged.
C10_RefundAndReverseEffects ==
  /\ Succeeded("Refund") =>
       /\ NumEq(account.Merchants[RetMerchant].Captured,
                Minus(ret.before.Merchants[RetMerchant].Captured, ret.amount))
       /\ NumEq(account.Available, Plus(ret.before.Available, ret.amount))
       /\ NumEq(account.Blocked, ret.before.Blocked)
       /\ \A m \in DOMAIN account.Merchants :
            NumEq(account.Merchants[m].Available,
                  ret.before.Merchants[m].Available)
  /\ Succeeded("Reverse") =>
       /\ NumEq(account.Merchants[RetMerchant].Available,
                Minus(ret.before.Merchants[RetMerchant].Available, ret.amount))
       /\ NumEq(account.Blocked, Minus(ret.before.Blocked, ret.amount))
       /\ NumEq(account.Available, Plus(ret.before.Available, ret.amount))
       /\ \A m \in DOMAIN account.Merchants :
            NumEq(account.Merchants[m].Captured,
                  ret.before.Merchants[m].Captured)

\* C11: the log is append-only and complete: a successful Load, Authorize,
\* Capture, Reverse or Refund leaves the log as it was with exactly one
\* record added at its end, carrying the operation's type, the merchant
\* named in the call (none for Load) and the amount named in the call; a
\* failed call leaves the log as it was; so no record is ever changed,
\* reordered or removed, and record k is the k-th successful call.
C11_LogAppendOnly ==
  /\ ret.method # "" =>
       IF ret.err = ErrNone
         THEN account.Transactions =
                Append(ret.before.Transactions,
                       Transaction(OpOf(ret.method), ret.merchantID, ret.amount))
         ELSE account.Transactions = ret.before.Transactions
  /\ \A k \in DOMAIN account.Transactions :
       (account.Transactions[k].MerchantID = <<>>)
         <=> (account.Transactions[k].Type = OpLoad)

\* a successful Capture has put the third record on a log of a Load and an
\* Authorize
C11_Witness ==
  /\ Succeeded("Capture")
  /\ Len(account.Transactions) = 3
  /\ account.Transactions[1].Type = OpLoad
  /\ account.Transactions[2].Type = OpAuthorize
  /\ account.Transactions[3] = Transaction(OpCapture, ret.merchantID, ret.amount)

\* C12: Load has no precondition on the amount: for every amount, a
\* negative one included, Load succeeds, sets available to available +
\* amount, leaves blocked and every merchant sub-ledger unchanged, and
\* appends one Load record with no merchant identifier.
C12_LoadAddsAmount ==
  (ret.method = "Load" /\ ~IsNil(ret.amount)) =>
    /\ ret.err = ErrNone
    /\ NumEq(account.Available, Plus(ret.before.Available, ret.amount))
    /\ account.Blocked = ret.before.Blocked
    /\ account.Merchants = ret.before.Merchants
    /\ account.Transactions =
         Append(ret.before.Transactions, Transaction(OpLoad, <<>>, ret.amount))

\* the balances, merchant sub-ledgers and log of a are those of b
SameLedger(a, b) ==
  /\ NumEq(a.Available, b.Available)
  /\ NumEq(a.Blocked, b.Blocked)
  /\ DOMAIN a.Merchants = DOMAIN b.Merchants
  /\ \A m \in DOMAIN a.Merchants :
       /\ NumEq(a.Merchants[m].Available, b.Merchants[m].Available)
       /\ NumEq(a.Merchants[m].Captured, b.Merchants[m].Captured)
  /\ a.Transactions = b.Transactions

\* C13: every mutating operation is atomic with respect to arithmetic
\* failure: after a call in which a decimal add or subtract returned an
\* error, no balance of the account or of a merchant has changed, no
\* merchant sub-ledger has been created and no Transaction has been appended.
C13_ArithmeticFailureChangesNothing ==
  ret.err = ErrArithmetic => SameLedger(account, ret.before)

\* a caller holds a Balance
HoldsBalance == balance # NilBalance

\* C14: a Balance is a snapshot: the available and blocked it shows stay
\* what they were when it was returned, whatever is called on the account
\* afterwards, and its total stays equal to its available + blocked. Stated
\* for the Balances whose total was computed without rounding.
C14_BalanceIsSnapshot ==
  (HoldsBalance /\ ~balance.inexact) =>
    /\ NumEq(Deref(account, balance.Available), balance.at.Available)
    /\ NumEq(Deref(account, balance.Blocked), balance.at.Blocked)
    /\ NumEq(balance.Total, Plus(Deref(account, balance.Available),
                                 Deref(account, balance.Blocked)))

\* C15: for every account state Statement renders exactly one row per
\* transaction in log order, row i (0-based) showing index i, the uppercase
\* type name and the merchant identifier (blank exactly for Load records);
\* it renders the no-transactions placeholder in place of the rows when the
\* log is empty; and it leaves balances, merchants and log unchanged.
C15_StatementRowsFollowLog ==
  ret.method = "Statement" =>
    LET log == account.Transactions
    IN  /\ ret.err = ErrNone
        /\ Len(statement.rows) = Len(log)
        /\ \A k \in DOMAIN log :
             /\ statement.rows[k].ID = Digit[k]
             /\ statement.rows[k].Type = OpString(log[k].Type)
             /\ statement.rows[k].Type
                  \in {"LOAD", "AUTHORIZE", "CAPTURE", "REVERSE", "REFUND"}
             /\ (statement.rows[k].Merchant = "") <=> (log[k].Type = OpLoad)
             /\ log[k].Type # OpLoad =>
                  statement.rows[k].Merchant = Digit[log[k].MerchantID[1] + 1]
        /\ statement.placeholder <=> (log = <<>>)
        /\ account = ret.before

\* C16: every decimal add or subtract of a ledger mutation yields the exact
\* sum or difference, or the call returns an error: no call returns without
\* an error after a result that does not fit 16 significant digits was
\* rounded into a balance.
C16_NoSilentRounding == ret.err = ErrNone => ~ret.inexact

\* C19: a merchant sub-ledger is created only by a successful Authorize
\* for a merchant not yet present, with captured = 0 and available = 0
\* before the amount is added; never by Capture, Reverse, Refund, Load,
\* Balance or a failed Authorize; and a sub-ledger once present is never
\* removed.
C19_MerchantsOnlyByAuthorize ==
  ret.method # "" =>
    /\ DOMAIN ret.before.Merchants \subseteq DOMAIN account.Merchants
    /\ \A m \in DOMAIN account.Merchants \ DOMAIN ret.before.Merchants :
         /\ Succeeded("Authorize")
         /\ m = RetMerchant
         /\ Sign(account.Merchants[m].Captured) = 0
         /\ account.Merchants[m].Available = CtxAdd(Zero, ret.amount).d
    /\ (Succeeded("Authorize") /\ RetMerchant \notin DOMAIN ret.before.Merchants)
         => RetMerchant \in DOMAIN account.Merchants

RECURSIVE SumCaptured(_, _)
SumCaptured(ms, ids) ==
  IF ids = {} THEN Zero
  ELSE LET k == CHOOSE k \in ids : TRUE
       IN  Plus(ms[k].Captured, SumCaptured(ms, ids \ {k}))

\* the sum of the amounts of the Load records among the first n records
RECURSIVE SumLoads(_, _)
SumLoads(log, n) ==
  IF n = 0 THEN Zero
  ELSE IF log[n].Type = OpLoad THEN Plus(log[n].Amount, SumLoads(log, n - 1))
  ELSE SumLoads(log, n - 1)

\* C20: money is conserved: in every reachable state available + blocked +
\* the sum of merchant.captured over all merchants equals the sum of the
\* amounts of all Load records in the log.
C20_MoneyConserved ==
  NumEq(Plus(Total(account),
             SumCaptured(account.Merchants, DOMAIN account.Merchants)),
        SumLoads(account.Transactions, Len(account.Transactions)))

\* request p has returned
Finished(p) == pc[p] = "done"

\* one request run on its own: what it leaves of the directory and of the
\* account
SerialStep(s, r) ==
  IF r.handler = "createAccount"
    THEN IF s.accounts # <<>> THEN s
         ELSE Snapshot(<<s.account.ID>>, NewAccount(s.account.ID))
  ELSE IF r.handler \in LedgerHandlers /\ s.accounts # <<>>
    THEN [s EXCEPT !.account = LedgerCall(s.account, r).acct]
  ELSE s

\* the first n requests of ps run one at a time, from the directory the
\* service started with
RECURSIVE Serial(_, _)
Serial(ps, n) ==
  IF n = 0 THEN Snapshot(loaded, NewAccount(0))
  ELSE SerialStep(Serial(ps, n - 1), req[ps[n]])

\* C17: concurrent load/authorize/capture/reverse/refund requests for the
\* same account each run their ledger operation entirely while holding
\* accountsMu: the account and its log (and the directory) are those of
\* running the requests that have returned one at a time, in the order
\* they acquired the lock.
C17_SerialInLockOrder ==
  LET returned == SelectSeq(order, Finished)
  IN  Snapshot(accounts, account) = Serial(returned, Len(returned))

\* a request that arrived first and waited has the lock after a later
\* request changed the account and returned; both are ledger requests
C17_Witness ==
  \E p, q \in Requests :
    /\ q < p
    /\ req[p].handler \in LedgerHandlers
    /\ req[q].handler \in LedgerHandlers
    /\ order = <<p, q>>
    /\ pc[p] = "done"
    /\ resp[p].status = "200 OK"
    /\ pc[q] = "locked"
    /\ account.Transactions # <<>>

\* request p's next statement reads accountsMap or accounts
ReadsDirectory(p) ==
  \/ pc[p] = "start" /\ req[p].handler = "getAccount"
  \/ pc[p] \in {"locked", "rlocked"}

\* request p's next statement reads the fields of the account
ReadsAccount(p) ==
  \/ pc[p] \in {"encode", "rlocked"}
  \/ /\ pc[p] = "locked"
     /\ req[p].handler \in LedgerHandlers \cup {"statement"}

\* C18: the service serializes all access: no handler reads an account or
\* the account directory while another handler is writing it.
C18_NoReadDuringWrite ==
  \A p, q \in Requests :
    p # q =>
      /\ ~(ReadsDirectory(p) /\ WritesDirectory(q))
      /\ ~(ReadsAccount(p) /\ WritesAccount(q))

\* the call a log record stands for, made on the account that r left; a
\* replay that has failed stays failed
ReplayStep(r, v) ==
  IF r.err # ErrNone THEN r
  ELSE IF v.Type = OpLoad THEN AccountLoad(r.acct, v.Amount)
  ELSE IF v.Type = OpAuthorize
    THEN AccountAuthorize(r.acct, v.MerchantID[1], v.Amount)
  ELSE IF v.Type = OpCapture
    THEN AccountCapture(r.acct, v.MerchantID[1], v.Amount)
  ELSE IF v.Type = OpReverse
    THEN AccountReverse(r.acct, v.MerchantID[1], v.Amount)
  ELSE AccountRefund(r.acct, v.MerchantID[1], v.Amount)

\* the first n records of log replayed in order on NewAccount(id)
RECURSIVE Replay(_, _, _)
Replay(id, log, n) ==
  IF n = 0 THEN Result(NewAccount(id), ErrNone, FALSE)
  ELSE ReplayStep(Replay(id, log, n - 1), log[n])

\* C21: the transaction log determines the ledger: in every reachable
\* state, replaying the log's records in order on a fresh NewAccount
\* succeeds at every step and yields the available, blocked, merchant set
\* and per-merchant available and captured (and the log) of the account.
C21_LogDeterminesLedger ==
  \E r \in {Replay(account.ID, account.Transactions,
                   Len(account.Transactions))} :
    /\ r.err = ErrNone
    /\ SameLedger(r.acct, account)

\* the last call named a merchant
NamesMerchant == ret.method \in MerchantMethods \cup {"Authorize"}

\* C22: merchant sub-ledgers are isolated: an Authorize, Capture, Reverse or
\* Refund naming merchant m, successful or failed, leaves the available and
\* captured of every other merchant unchanged, and a Capture, Reverse or
\* Refund of m succeeds only when m's own hold (for Refund, m's own captured)
\* covers the amount, whatever the other merchants hold.
C22_MerchantsIsolated ==
  NamesMerchant =>
    /\ \A other \in DOMAIN ret.before.Merchants \ {RetMerchant} :
         /\ other \in DOMAIN account.Merchants
         /\ account.Merchants[other] = ret.before.Merchants[other]
    /\ (ret.method \in MerchantMethods /\ ret.err = ErrNone) =>
         /\ RetMerchant \in DOMAIN ret.before.Merchants
         /\ Cmp(Bounded(ret.before, ret.method, RetMerchant), ret.amount) >= 0

\* a Capture, Reverse or Refund was refused for a merchant whose own balance
\* is short of the amount while another merchant's balance covers it
C22_Witness ==
  /\ ret.method \in MerchantMethods
  /\ ret.err = ErrUnderflow
  /\ \E other \in DOMAIN ret.before.Merchants \ {RetMerchant} :
       /\ Sign(ret.amount) > 0
       /\ Cmp(Bounded(ret.before, ret.method, other), ret.amount) >= 0
       /\ account.Merchants[other] = ret.before.Merchants[other]

\* no handler holds accountsMu, for writing or for reading
Unlocked == accountsMu.writer = {} /\ accountsMu.readers = {}

\* C23: in the service a ledger mutation and its snapshot write are atomic:
\* whenever no handler holds accountsMu, the last snapshot written
\* successfully equals the accounts in memory, also after a request whose
\* ledger operation failed and after a request whose database write failed.
C23_SnapshotMatchesMemory ==
  Unlocked => written = Snapshot(accounts, account)

====
